---- MODULE Spec2Model ----
(***************************************************************************)
(* Row views of rql's Table (src/src/row.rs): Row, RowMut, MappedRow and   *)
(* the iterators RowIter and RowIterMut.                                   *)
(*                                                                         *)
(* A reference (&T, &mut T) is modelled as the address of the value it     *)
(* points to, [tbl, key]: the entry `key` of the hash map of table `tbl`.  *)
(* A view is a record [kind, tag, id, data]: `tag` is the phantom type of  *)
(* its Id<..>, `data` is a reference (Row, RowMut) or an owned value       *)
(* (MappedRow).                                                            *)
(***************************************************************************)
EXTENDS Integers, Sequences, FiniteSets, Bags, TLC

\* ------------------------------------------------------------- bounds
NumRows == 2
MaxData == 1
MaxChain == 2
MaxNones == 2

Ids == 1..NumRows
Data == 0..MaxData
Tags == {"E1", "E2"}
Prims == {"inc", "dbl"}

VARIABLES
    table,      \* the table's hash map: Id -> T
    rows,       \* the live Row views of `table`: a set
    rowMuts,    \* the live RowMut views of `table`: a bag
    mapped,     \* <<>> or <<m>>: a live MappedRow
    iter,       \* <<>> or <<inner>>: a live RowIter, inner the keys still to come
    iterC,      \* <<>> or <<inner>>: a live clone of the RowIter
    iterMut,    \* <<>> or <<inner>>: a live RowIterMut
    mappedSrc,  \* history: the key of the entry `mapped` was first mapped from
    iterOrder,  \* history: the keys in the order `iter` was made to walk them
    yielded,    \* history: the views `iter` has yielded since it was made
    nones,      \* history: how many times `iter` has returned None
    cloneRem,   \* history: what `iter` had still to yield when `iterC` was cloned
    yieldedC,   \* history: the views `iterC` has yielded since it was cloned
    shadow,     \* history: the table as the writes made so far should have left it
    lastWritten,\* history: the id of the RowMut last written through (0: none)
    tabL, tabR, \* the hash maps of the tables the operands `a` and `b` borrow from
                \* (one entry each, or none when the operand is a MappedRow)
    a, b,       \* two views under operation
    r0, chain,  \* history: the MappedRow `a` was, and the closures mapped over it since
    res         \* the result of the last operation on `a` (and `b`)

tvars == <<table, rows, rowMuts, mapped, iter, iterC, iterMut, mappedSrc,
           iterOrder, yielded, nones, cloneRem, yieldedC, shadow, lastWritten>>
vvars == <<tabL, tabR, a, b, r0, chain, res>>
vars == <<tvars, vvars>>

\* ------------------------------------------------------------- memory
Ref(t, k) == [tbl |-> t, key |-> k]

Deref(ref) ==
    CASE ref.tbl = "T" -> table[ref.key]
      [] ref.tbl = "L" -> tabL[ref.key]
      [] ref.tbl = "R" -> tabR[ref.key]

\* The entity type of each table: the T of its Id<T> keys.
EntityOf(t) == IF t = "R" THEN "E2" ELSE "E1"

\* ------------------------------------------------------------- closures
\* A closure is a sequence of primitive functions, applied left to right:
\* <<f, g>> is |x| g(f(x)).
ApplyPrim(p, v) ==
    IF p = "inc" THEN (v + 1) % (MaxData + 1) ELSE (2 * v) % (MaxData + 1)

RECURSIVE Apply(_, _)
Apply(f, v) == IF f = <<>> THEN v ELSE Apply(Tail(f), ApplyPrim(Head(f), v))

\* ------------------------------------------------------------- views
Row(id, data) == [kind |-> "Row", tag |-> EntityOf(data.tbl), id |-> id, data |-> data]
RowMut(id, data) == [kind |-> "RowMut", tag |-> EntityOf(data.tbl), id |-> id, data |-> data]
MappedRow(tag, id, data) == [kind |-> "MappedRow", tag |-> tag, id |-> id, data |-> data]

\* Row::map had it dropped f.
RowMapNoApply(self, f) == MappedRow(self.tag, self.id, Deref(self.data))

\* Row::map
RowMap(self, f) == MappedRow(self.tag, self.id, Apply(f, Deref(self.data)))

\* RowMut::map
RowMutMap(self, f) == MappedRow(self.tag, self.id, Apply(f, Deref(self.data)))

\* MappedRow::map had it taken another id.
MappedRowMapNewId(self, f) ==
    MappedRow(self.tag, (self.id % NumRows) + 1, Apply(f, self.data))

\* MappedRow::map
MappedRowMap(self, f) == MappedRow(self.tag, self.id, Apply(f, self.data))

\* ------------------------------------------------------------- equality
RowEqRow(self, other) == Deref(self.data) = Deref(other.data)
RowEqRowMut(self, other) == Deref(self.data) = Deref(other.data)
\* Row == MappedRow had it compared the ids too.
RowEqMappedRowWithId(self, other) ==
    self.id = other.id /\ Deref(self.data) = other.data
RowEqMappedRow(self, other) == Deref(self.data) = other.data
RowMutEqRowMut(self, other) == Deref(self.data) = Deref(other.data)
RowMutEqRow(self, other) == Deref(self.data) = Deref(other.data)
RowMutEqMappedRow(self, other) == Deref(self.data) = other.data
MappedRowEqMappedRow(self, other) == self.data = other.data
MappedRowEqRow(self, other) == self.data = Deref(other.data)
MappedRowEqRowMut(self, other) == self.data = Deref(other.data)

\* The impls had MappedRow == MappedRow left both Id types free.
EqImplAnyTag(self, other) == TRUE

\* Whether an impl of PartialEq<other's type> for self's type exists: the
\* impl for two MappedRows names one Id type I for both sides, every other
\* impl leaves the Id types of its two sides free.
EqImplExists(self, other) ==
    (self.kind = "MappedRow" /\ other.kind = "MappedRow") => self.tag = other.tag

\* self == other: <<>> when no impl applies (the program is rejected),
\* <<result>> otherwise.
ViewEq(self, other) ==
    IF ~EqImplExists(self, other) THEN <<>>
    ELSE <<CASE self.kind = "Row" /\ other.kind = "Row" -> RowEqRow(self, other)
             [] self.kind = "Row" /\ other.kind = "RowMut" -> RowEqRowMut(self, other)
             [] self.kind = "Row" /\ other.kind = "MappedRow" -> RowEqMappedRow(self, other)
             [] self.kind = "RowMut" /\ other.kind = "RowMut" -> RowMutEqRowMut(self, other)
             [] self.kind = "RowMut" /\ other.kind = "Row" -> RowMutEqRow(self, other)
             [] self.kind = "RowMut" /\ other.kind = "MappedRow" -> RowMutEqMappedRow(self, other)
             [] self.kind = "MappedRow" /\ other.kind = "MappedRow" -> MappedRowEqMappedRow(self, other)
             [] self.kind = "MappedRow" /\ other.kind = "Row" -> MappedRowEqRow(self, other)
             [] self.kind = "MappedRow" /\ other.kind = "RowMut" -> MappedRowEqRowMut(self, other)>>

\* ------------------------------------------------------------- formatting
\* Text is a sequence of pieces. The renderings of an Id and of a T belong to
\* Id and to T: each is one piece naming the trait, the alternate flag of the
\* formatter it was given, and the value rendered.
IdDisplay(id) == <<[trait |-> "Display", alt |-> FALSE, of |-> "Id", val |-> id]>>
DataFmt(trait, alt, v) == <<[trait |-> trait, alt |-> alt, of |-> "T", val |-> v]>>

\* fmt::Debug for Row: write!(f, "{}: {:#?}", ..) or write!(f, "{}: {:?}", ..)
RowDebug(self, alt) ==
    IF alt THEN IdDisplay(self.id) \o <<": ">> \o DataFmt("Debug", TRUE, Deref(self.data))
    ELSE IdDisplay(self.id) \o <<": ">> \o DataFmt("Debug", FALSE, Deref(self.data))

\* fmt::Display for Row: <T as fmt::Display>::fmt(&self.data, f)
RowDisplay(self, alt) == DataFmt("Display", alt, Deref(self.data))

\* fmt::Debug for RowMut had it ignored the alternate flag.
RowMutDebugNeverPretty(self, alt) ==
    IdDisplay(self.id) \o <<": ">> \o DataFmt("Debug", FALSE, Deref(self.data))

\* fmt::Debug for RowMut
RowMutDebug(self, alt) ==
    IF alt THEN IdDisplay(self.id) \o <<": ">> \o DataFmt("Debug", TRUE, Deref(self.data))
    ELSE IdDisplay(self.id) \o <<": ">> \o DataFmt("Debug", FALSE, Deref(self.data))

\* fmt::Display for RowMut
RowMutDisplay(self, alt) == DataFmt("Display", alt, Deref(self.data))

\* fmt::Debug for MappedRow
MappedRowDebug(self, alt) ==
    IF alt THEN IdDisplay(self.id) \o <<": ">> \o DataFmt("Debug", TRUE, self.data)
    ELSE IdDisplay(self.id) \o <<": ">> \o DataFmt("Debug", FALSE, self.data)

\* fmt::Display for MappedRow
MappedRowDisplay(self, alt) == DataFmt("Display", alt, self.data)

ViewFmt(self, trait, alt) ==
    CASE self.kind = "Row" /\ trait = "Debug" -> RowDebug(self, alt)
      [] self.kind = "Row" /\ trait = "Display" -> RowDisplay(self, alt)
      [] self.kind = "RowMut" /\ trait = "Debug" -> RowMutDebug(self, alt)
      [] self.kind = "RowMut" /\ trait = "Display" -> RowMutDisplay(self, alt)
      [] self.kind = "MappedRow" /\ trait = "Debug" -> MappedRowDebug(self, alt)
      [] self.kind = "MappedRow" /\ trait = "Display" -> MappedRowDisplay(self, alt)

\* ------------------------------------------------------------- the views' operations
\* The views that can borrow from table t, and the MappedRows.
BorrowedViews(t) ==
    {Row(i, Ref(t, i)) : i \in Ids} \cup {RowMut(i, Ref(t, i)) : i \in Ids}
MappedViews == {MappedRow(g, i, v) : g \in Tags, i \in Ids, v \in Data}

\* The table's part of the state while only views are operated on.
TIdle ==
    /\ table = [i \in Ids |-> 0]
    /\ rows = {}
    /\ rowMuts = EmptyBag
    /\ mapped = <<>>
    /\ iter = <<>>
    /\ iterC = <<>>
    /\ iterMut = <<>>
    /\ mappedSrc = 0
    /\ iterOrder = <<>>
    /\ yielded = <<>>
    /\ nones = 0
    /\ cloneRem = <<>>
    /\ yieldedC = <<>>
    /\ shadow = table
    /\ lastWritten = 0

ViewInit ==
    /\ TIdle
    /\ \/ a \in BorrowedViews("L") /\ tabL \in [{a.data.key} -> Data]
       \/ a \in MappedViews /\ tabL = <<>>
    /\ \/ b \in BorrowedViews("R") /\ tabR \in [{b.data.key} -> Data]
       \/ b \in MappedViews /\ tabR = <<>>
    /\ r0 = IF a.kind = "MappedRow" THEN <<a>> ELSE <<>>
    /\ chain = <<>>
    /\ res = [op |-> "none"]

\* a.map(f) on a Row or a RowMut; the chain goes on from the MappedRow made.
ViewBorrowedMap ==
    /\ a.kind \in {"Row", "RowMut"}
    /\ \E p \in Prims :
        LET out == IF a.kind = "Row" THEN RowMap(a, <<p>>) ELSE RowMutMap(a, <<p>>)
        IN /\ res' = [op |-> "map", self |-> a, arg |-> <<p>>, out |-> out]
           /\ a' = out
           /\ r0' = <<out>>
           /\ chain' = <<>>
    /\ UNCHANGED <<tvars, tabL, tabR, b>>

\* a.map(f) on a MappedRow, which it consumes.
ViewMappedMap ==
    /\ a.kind = "MappedRow"
    /\ Len(chain) < MaxChain
    /\ \E p \in Prims :
        LET out == MappedRowMap(a, <<p>>)
        IN /\ res' = [op |-> "map", self |-> a, arg |-> <<p>>, out |-> out]
           /\ a' = out
           /\ chain' = Append(chain, p)
    /\ UNCHANGED <<tvars, tabL, tabR, b, r0>>

\* a == b
ViewCompare ==
    /\ res' = [op |-> "eq", self |-> a, arg |-> b, out |-> ViewEq(a, b)]
    /\ UNCHANGED <<tvars, tabL, tabR, a, b, r0, chain>>

\* format!("{:?}", a), format!("{:#?}", a), format!("{}", a), format!("{:#}", a)
ViewFormat ==
    /\ \E trait \in {"Debug", "Display"}, alt \in BOOLEAN :
        res' = [op |-> "fmt", self |-> a, arg |-> <<trait, alt>>,
                out |-> ViewFmt(a, trait, alt)]
    /\ UNCHANGED <<tvars, tabL, tabR, a, b, r0, chain>>

ViewNext == ViewBorrowedMap \/ ViewMappedMap \/ ViewCompare \/ ViewFormat

SpecView == ViewInit /\ [][ViewNext]_vars

\* ------------------------------------------------------------- the iterators
Perms(S) == {p \in [1..Cardinality(S) -> S] : \A i, j \in 1..Cardinality(S) : p[i] = p[j] => i = j}
Range(q) == {q[i] : i \in 1..Len(q)}
KeysOf(views) == [i \in 1..Len(views) |-> views[i].data.key]

\* hash_map::Iter::next and hash_map::IterMut::next on the keys still to
\* come: the entry (key, reference to its value) of the first, or nothing.
HashIterNext(inner) ==
    IF inner = <<>> THEN [item |-> <<>>, inner |-> inner]
    ELSE [item |-> <<[id |-> Head(inner), data |-> Ref("T", Head(inner))]>>,
          inner |-> Tail(inner)]

\* RowIter::next had it stopped one entry early.
RowIterNextStopsEarly(self) ==
    LET n == HashIterNext(self)
    IN IF n.item = <<>> \/ n.inner = <<>> THEN [item |-> <<>>, inner |-> <<>>]
       ELSE [item |-> <<Row(n.item[1].id, n.item[1].data)>>, inner |-> n.inner]

\* RowIter::next
RowIterNext(self) ==
    LET n == HashIterNext(self)
    IN IF n.item = <<>> THEN [item |-> <<>>, inner |-> n.inner]
       ELSE [item |-> <<Row(n.item[1].id, n.item[1].data)>>, inner |-> n.inner]

\* Clone for RowIter had it made an exhausted iterator.
RowIterCloneEmpty(self) == <<>>

\* Clone for RowIter
RowIterClone(self) == self

\* RowIterMut::next had it not moved on.
RowIterMutNextStays(self) ==
    LET n == HashIterNext(self)
    IN IF n.item = <<>> THEN [item |-> <<>>, inner |-> n.inner]
       ELSE [item |-> <<RowMut(n.item[1].id, n.item[1].data)>>, inner |-> self]

\* RowIterMut::next
RowIterMutNext(self) ==
    LET n == HashIterNext(self)
    IN IF n.item = <<>> THEN [item |-> <<>>, inner |-> n.inner]
       ELSE [item |-> <<RowMut(n.item[1].id, n.item[1].data)>>, inner |-> n.inner]

\* ------------------------------------------------------------- the other operations
\* Clone for Row
RowClone(self) == Row(self.id, self.data)

\* Clone for MappedRow
MappedRowClone(self) == MappedRow(self.tag, self.id, self.data)

\* DerefMut for RowMut had it referred to another entry.
RowMutDerefMutElsewhere(self) == Ref(self.data.tbl, (self.data.key % NumRows) + 1)

\* DerefMut for RowMut: the place a write through the view goes to.
RowMutDerefMut(self) == self.data

\* AsMut for RowMut
RowMutAsMut(self) == self.data

\* A write through a MappedRow had it touched the id.
MappedRowWriteNewId(self, v) == MappedRow(self.tag, (self.id % NumRows) + 1, v)

\* DerefMut and AsMut for MappedRow give &mut self.data: the view after v is
\* written through either.
MappedRowWrite(self, v) == [self EXCEPT !.data = v]

\* ------------------------------------------------------------- the table's borrows
SharedLive == rows # {} \/ iter # <<>> \/ iterC # <<>>
ExclusiveLive == rowMuts # EmptyBag \/ iterMut # <<>>

\* Table::get_row(&self, id)
TableGetRow ==
    /\ ~ExclusiveLive
    /\ \E id \in DOMAIN table : rows' = rows \cup {Row(id, Ref("T", id))}
    /\ UNCHANGED <<table, rowMuts, mapped, iter, iterC, iterMut, mappedSrc, iterOrder,
                   yielded, nones, cloneRem, yieldedC, shadow, lastWritten, vvars>>

\* Table::get_row_mut(&mut self, id)
TableGetRowMut ==
    /\ ~SharedLive
    /\ ~ExclusiveLive
    /\ \E id \in DOMAIN table : rowMuts' = SetToBag({RowMut(id, Ref("T", id))})
    /\ UNCHANGED <<table, rows, mapped, iter, iterC, iterMut, mappedSrc, iterOrder,
                   yielded, nones, cloneRem, yieldedC, shadow, lastWritten, vvars>>

\* Table::rows(&self): the map's entries in the order the map stores them,
\* which it does not specify.
TableRows ==
    /\ ~ExclusiveLive
    /\ iter = <<>>
    /\ \E p \in Perms(DOMAIN table) :
        /\ iter' = <<p>>
        /\ iterOrder' = p
    /\ yielded' = <<>>
    /\ nones' = 0
    /\ UNCHANGED <<table, rows, rowMuts, mapped, iterC, iterMut, mappedSrc,
                   cloneRem, yieldedC, shadow, lastWritten, vvars>>

\* Table::rows_mut(&mut self)
TableRowsMut ==
    /\ ~SharedLive
    /\ ~ExclusiveLive
    /\ \E p \in Perms(DOMAIN table) : iterMut' = <<p>>
    /\ UNCHANGED <<table, rows, rowMuts, mapped, iter, iterC, mappedSrc, iterOrder,
                   yielded, nones, cloneRem, yieldedC, shadow, lastWritten, vvars>>

\* ------------------------------------------------------------- the actions
\* iter.next()
IterNext ==
    /\ iter # <<>>
    /\ LET n == RowIterNext(iter[1])
       IN /\ iter' = <<n.inner>>
          /\ IF n.item = <<>>
             THEN /\ nones < MaxNones
                  /\ nones' = nones + 1
                  /\ UNCHANGED <<rows, yielded>>
             ELSE /\ rows' = rows \cup {n.item[1]}
                  /\ yielded' = Append(yielded, n.item[1])
                  /\ UNCHANGED nones
    /\ UNCHANGED <<table, rowMuts, mapped, iterC, iterMut, mappedSrc, iterOrder,
                   cloneRem, yieldedC, shadow, lastWritten, vvars>>

\* iter.clone()
IterClone ==
    /\ iter # <<>>
    /\ iterC = <<>>
    /\ iterC' = <<RowIterClone(iter[1])>>
    /\ cloneRem' = iter[1]
    /\ yieldedC' = <<>>
    /\ UNCHANGED <<table, rows, rowMuts, mapped, iter, iterMut, mappedSrc, iterOrder,
                   yielded, nones, shadow, lastWritten, vvars>>

\* next() on the clone
IterCNext ==
    /\ iterC # <<>>
    /\ LET n == RowIterNext(iterC[1])
       IN /\ n.item # <<>>
          /\ iterC' = <<n.inner>>
          /\ rows' = rows \cup {n.item[1]}
          /\ yieldedC' = Append(yieldedC, n.item[1])
    /\ UNCHANGED <<table, rowMuts, mapped, iter, iterMut, mappedSrc, iterOrder,
                   yielded, nones, cloneRem, shadow, lastWritten, vvars>>

\* iterMut.next(): the RowMut yielded lives as long as the table's borrow,
\* not as long as the borrow of the iterator.
IterMutNext ==
    /\ iterMut # <<>>
    /\ LET n == RowIterMutNext(iterMut[1])
       IN /\ n.item # <<>>
          /\ iterMut' = <<n.inner>>
          /\ rowMuts' = rowMuts (+) SetToBag({n.item[1]})
    /\ UNCHANGED <<table, rows, mapped, iter, iterC, mappedSrc, iterOrder,
                   yielded, nones, cloneRem, yieldedC, shadow, lastWritten, vvars>>

\* *m = v or *m.as_mut() = v for a live RowMut m
RowMutWrite ==
    /\ \E m \in BagToSet(rowMuts), v \in Data :
       \E place \in {RowMutDerefMut(m), RowMutAsMut(m)} :
        /\ table' = [table EXCEPT ![place.key] = v]
        /\ shadow' = [shadow EXCEPT ![m.id] = v]
        /\ lastWritten' = m.id
    /\ UNCHANGED <<rows, rowMuts, mapped, iter, iterC, iterMut, mappedSrc, iterOrder,
                   yielded, nones, cloneRem, yieldedC, vvars>>

\* r.map(f) for a live Row r
RowMapped ==
    /\ \E r \in rows, p \in Prims :
        /\ mapped' = <<RowMap(r, <<p>>)>>
        /\ mappedSrc' = r.data.key
    /\ UNCHANGED <<table, rows, rowMuts, iter, iterC, iterMut, iterOrder,
                   yielded, nones, cloneRem, yieldedC, shadow, lastWritten, vvars>>

\* m.map(f) for a live RowMut m
RowMutMapped ==
    /\ \E m \in BagToSet(rowMuts), p \in Prims :
        /\ mapped' = <<RowMutMap(m, <<p>>)>>
        /\ mappedSrc' = m.data.key
    /\ UNCHANGED <<table, rows, rowMuts, iter, iterC, iterMut, iterOrder,
                   yielded, nones, cloneRem, yieldedC, shadow, lastWritten, vvars>>

\* mapped.map(f), mapped.clone(), *mapped = v
MappedStep ==
    /\ mapped # <<>>
    /\ \/ \E p \in Prims : mapped' = <<MappedRowMap(mapped[1], <<p>>)>>
       \/ \E v \in Data : mapped' = <<MappedRowWrite(mapped[1], v)>>
       \/ mapped' = <<MappedRowClone(mapped[1])>>
    /\ UNCHANGED <<table, rows, rowMuts, iter, iterC, iterMut, mappedSrc, iterOrder,
                   yielded, nones, cloneRem, yieldedC, shadow, lastWritten, vvars>>

\* r.clone() for a live Row r
RowCloned ==
    /\ \E r \in rows : rows' = rows \cup {RowClone(r)}
    /\ UNCHANGED <<table, rowMuts, mapped, iter, iterC, iterMut, mappedSrc, iterOrder,
                   yielded, nones, cloneRem, yieldedC, shadow, lastWritten, vvars>>

\* A view or an iterator goes out of scope.
DropRow ==
    /\ \E r \in rows : rows' = rows \ {r}
    /\ UNCHANGED <<table, rowMuts, mapped, iter, iterC, iterMut, mappedSrc, iterOrder,
                   yielded, nones, cloneRem, yieldedC, shadow, lastWritten, vvars>>

DropRowMut ==
    /\ \E m \in BagToSet(rowMuts) : rowMuts' = rowMuts (-) SetToBag({m})
    /\ UNCHANGED <<table, rows, mapped, iter, iterC, iterMut, mappedSrc, iterOrder,
                   yielded, nones, cloneRem, yieldedC, shadow, lastWritten, vvars>>

DropMapped ==
    /\ mapped # <<>>
    /\ mapped' = <<>>
    /\ mappedSrc' = 0
    /\ UNCHANGED <<table, rows, rowMuts, iter, iterC, iterMut, iterOrder,
                   yielded, nones, cloneRem, yieldedC, shadow, lastWritten, vvars>>

DropIter ==
    /\ iter # <<>>
    /\ iter' = <<>>
    /\ iterOrder' = <<>>
    /\ yielded' = <<>>
    /\ nones' = 0
    /\ UNCHANGED <<table, rows, rowMuts, mapped, iterC, iterMut, mappedSrc,
                   cloneRem, yieldedC, shadow, lastWritten, vvars>>

DropIterC ==
    /\ iterC # <<>>
    /\ iterC' = <<>>
    /\ cloneRem' = <<>>
    /\ yieldedC' = <<>>
    /\ UNCHANGED <<table, rows, rowMuts, mapped, iter, iterMut, mappedSrc, iterOrder,
                   yielded, nones, shadow, lastWritten, vvars>>

DropIterMut ==
    /\ iterMut # <<>>
    /\ iterMut' = <<>>
    /\ UNCHANGED <<table, rows, rowMuts, mapped, iter, iterC, mappedSrc, iterOrder,
                   yielded, nones, cloneRem, yieldedC, shadow, lastWritten, vvars>>

Init ==
    /\ table \in [Ids -> Data]
    /\ rows = {}
    /\ rowMuts = EmptyBag
    /\ mapped = <<>>
    /\ iter = <<>>
    /\ iterC = <<>>
    /\ iterMut = <<>>
    /\ mappedSrc = 0
    /\ iterOrder = <<>>
    /\ yielded = <<>>
    /\ nones = 0
    /\ cloneRem = <<>>
    /\ yieldedC = <<>>
    /\ shadow = table
    /\ lastWritten = 0
    \* no operand views: the view operations are not part of this machine
    /\ tabL = <<>>
    /\ tabR = <<>>
    /\ a = MappedRow("E1", 1, 0)
    /\ b = MappedRow("E1", 1, 0)
    /\ r0 = <<>>
    /\ chain = <<>>
    /\ res = [op |-> "none"]

\* Views and iterators of one table: lookups, iteration, writes, maps, drops.
Next ==
    \/ TableGetRow \/ TableGetRowMut \/ TableRows \/ TableRowsMut
    \/ IterNext \/ IterMutNext
    \/ RowMutWrite \/ RowMapped \/ RowMutMapped \/ MappedStep \/ RowCloned
    \/ DropRow \/ DropRowMut \/ DropMapped \/ DropIter \/ DropIterMut

Spec == Init /\ [][Next]_vars

\* A RowIter and its clone over one table.
NextIter ==
    \/ TableRows \/ IterNext \/ IterClone \/ IterCNext \/ DropIter \/ DropIterC

SpecIter == Init /\ [][NextIter]_vars

\* ------------------------------------------------------------- properties of the views
\* The value a view carries.
DataOf(v) == IF v.kind = "MappedRow" THEN v.data ELSE Deref(v.data)

\* C1: map(f) on a Row or a RowMut holding (i, v) yields a MappedRow whose
\* identifier is i and whose value is f(v).
C1_MapKeepsIdAppliesF ==
    (res.op = "map" /\ res.self.kind \in {"Row", "RowMut"}) =>
        /\ res.out.kind = "MappedRow"
        /\ res.out.id = res.self.id
        /\ res.out.data = Apply(res.arg, Deref(res.self.data))

C1_Witness ==
    /\ res.op = "map"
    /\ res.self.kind = "Row"
    /\ res.self.id = 2
    /\ res.out.data # Deref(res.self.data)

\* C2: a comparison of two views of any kinds is true exactly when the values
\* they carry are equal, whatever their identifiers, and gives the same
\* result with its arguments swapped.
C2_EqComparesDataOnly ==
    (res.op = "eq" /\ res.out # <<>>) =>
        /\ res.out = <<DataOf(res.self) = DataOf(res.arg)>>
        /\ ViewEq(res.arg, res.self) = res.out

C2_Witness ==
    /\ res.op = "eq"
    /\ res.self.kind = "Row"
    /\ res.arg.kind = "MappedRow"
    /\ res.self.id # res.arg.id
    /\ res.out = <<TRUE>>

\* C3: for a MappedRow r, mapping f then g over it carries the value that
\* mapping |x| g(f(x)) over r carries, and the identifier is r's after every
\* step.
C3_ChainLaw ==
    (r0 # <<>>) =>
        /\ a.kind = "MappedRow"
        /\ a.id = r0[1].id
        /\ a.data = MappedRowMap(r0[1], chain).data

C3_Witness ==
    /\ r0 # <<>>
    /\ Len(chain) = 2
    /\ chain[1] # chain[2]
    /\ a.data # r0[1].data

\* C8 as claimed: Display and Debug of every view kind both render the
\* identifier, ": ", then the data.
C8_FmtIdColonData ==
    (res.op = "fmt") =>
        res.out = IdDisplay(res.self.id) \o <<": ">>
                  \o DataFmt(res.arg[1], res.arg[2], DataOf(res.self))

\* C8 as amended: Debug of every view kind renders the identifier, ": ", then
\* the data's Debug rendering, pretty when the alternate form is asked for;
\* Display renders the data's own Display rendering alone, with the
\* formatter's flags and without the identifier.
C8_DebugIdColonDataDisplayDataOnly ==
    (res.op = "fmt") =>
        IF res.arg[1] = "Debug"
        THEN res.out = IdDisplay(res.self.id) \o <<": ">>
                       \o DataFmt("Debug", res.arg[2], DataOf(res.self))
        ELSE res.out = DataFmt("Display", res.arg[2], DataOf(res.self))

C8_Witness ==
    /\ res.op = "fmt"
    /\ res.self.kind = "RowMut"
    /\ res.arg = <<"Debug", TRUE>>
    /\ Len(res.out) = 3

\* C9 as claimed: two MappedRows whose identifiers carry different tags can
\* be compared, and are equal exactly when their values are.
C9_MappedEqAcrossTags ==
    (/\ res.op = "eq"
     /\ res.self.kind = "MappedRow"
     /\ res.arg.kind = "MappedRow"
     /\ res.self.tag # res.arg.tag) =>
        res.out = <<res.self.data = res.arg.data>>

\* C9 as amended: two MappedRows can be compared exactly when their
\* identifiers carry the same tag; a MappedRow can be compared with a Row or
\* a RowMut of any tag; a comparison that exists is true exactly when the
\* values are equal.
C9_MappedEqSameTagOnly ==
    (res.op = "eq" /\ res.self.kind = "MappedRow") =>
        /\ (res.arg.kind = "MappedRow" =>
                (res.out # <<>> <=> res.self.tag = res.arg.tag))
        /\ (res.arg.kind # "MappedRow" => res.out # <<>>)
        /\ (res.out # <<>> => res.out = <<res.self.data = DataOf(res.arg)>>)

C9_Witness ==
    /\ res.op = "eq"
    /\ res.self.kind = "MappedRow"
    /\ res.arg.kind = "MappedRow"
    /\ res.self.tag = res.arg.tag
    /\ res.self.id # res.arg.id
    /\ res.out = <<TRUE>>

\* ------------------------------------------------------------- properties of the table's views
\* C4: once a RowIter has returned None it has yielded one Row per entry of
\* the table, their (identifier, value) pairs being the table's entries, each
\* once; a later next() on it yields nothing more.
C4_DrainYieldsEachEntryOnce ==
    (nones > 0) =>
        /\ Len(yielded) = Cardinality(DOMAIN table)
        /\ \A i \in 1..Len(yielded) : yielded[i].kind = "Row"
        /\ {<<yielded[i].id, Deref(yielded[i].data)>> : i \in 1..Len(yielded)}
             = {<<k, table[k]>> : k \in DOMAIN table}

C4_Witness ==
    /\ nones = MaxNones
    /\ Len(yielded) = NumRows
    /\ iter # <<>>

\* C5: a clone of a RowIter yields what the original had still to yield when
\* it was cloned, and advancing the clone leaves what the original yields
\* next, and after, as it was.
C5_CloneIndependent ==
    (iterC # <<>>) =>
        /\ KeysOf(yieldedC) \o iterC[1] = cloneRem
        /\ (iter # <<>> => KeysOf(yielded) \o iter[1] = iterOrder)

C5_Witness ==
    /\ iterC # <<>>
    /\ iter # <<>>
    /\ Len(cloneRem) < Len(iterOrder)
    /\ Len(yieldedC) >= 1
    /\ iter[1] = cloneRem
    /\ cloneRem # <<>>

\* C6: a write through a RowMut of identifier i changes the value of entry i
\* alone, and a Row looked up afterwards reads the value written.
C6_WriteObservable ==
    /\ table = shadow
    /\ \A r \in rows : Deref(r.data) = shadow[r.id]

C6_Witness ==
    /\ lastWritten # 0
    /\ \E r \in rows : r.id = lastWritten

\* C7 as claimed: at most one RowMut or RowIterMut is alive at a time, and
\* none together with a Row or a RowIter.
C7_OneMutableAtATime ==
    /\ BagCardinality(rowMuts) + (IF iterMut # <<>> THEN 1 ELSE 0) <= 1
    /\ ExclusiveLive => ~SharedLive

\* C7 as amended: no two live RowMuts refer to one entry, and none to an
\* entry a live RowIterMut has still to yield (a RowIterMut and the RowMuts it
\* has yielded are alive together); none is alive together with a Row or a
\* RowIter; while one is alive no other lookup or iterator of the table can
\* be made.
C7_NoAliasedMutable ==
    /\ \A m \in BagToSet(rowMuts) : CopiesIn(m, rowMuts) = 1
    /\ \A m1, m2 \in BagToSet(rowMuts) : m1.data = m2.data => m1 = m2
    /\ iterMut # <<>> => \A m \in BagToSet(rowMuts) : m.data.key \notin Range(iterMut[1])
    /\ ExclusiveLive => ~SharedLive
    /\ ExclusiveLive => /\ ~ENABLED TableGetRowMut
                        /\ ~ENABLED TableRowsMut
                        /\ ~ENABLED TableGetRow
                        /\ ~ENABLED TableRows

C7_Witness ==
    /\ BagCardinality(rowMuts) = 2
    /\ iterMut # <<>>

\* C10: every live Row and RowMut, and every view an iterator yielded,
\* carries the key of the entry its data refers to, and a MappedRow carries
\* the key of the entry it was first mapped from, whatever was done since.
C10_IdIsTheSlot ==
    /\ \A r \in rows : r.id = r.data.key
    /\ \A m \in BagToSet(rowMuts) : m.id = m.data.key
    /\ \A i \in 1..Len(yielded) : yielded[i].id = yielded[i].data.key
    /\ mapped # <<>> => mapped[1].id = mappedSrc

C10_Witness ==
    /\ mapped # <<>>
    /\ mappedSrc = 2
    /\ iterMut # <<>>
    /\ \E m \in BagToSet(rowMuts) : m.id = 2 /\ mapped[1].data # Deref(m.data)

====
